---- MODULE Spec2Model ----
(***************************************************************************)
(* Model of src/main.py: the mail monitor that polls an IMAP mailbox for   *)
(* CI/CD notifications, classifies each message by sender and subject,     *)
(* extracts details from the body and files a work item in Azure Boards.   *)
(*                                                                         *)
(* Python str values are TLA+ strings; a character is a string of length 1.*)
(* Python None is the sentinel None.                                       *)
(***************************************************************************)
EXTENDS Integers, Sequences, FiniteSets, TLC

VARIABLES
    llamada,    \* arguments of the method under test (pure-function specifications)
    retorno,    \* its return value, or Pendiente before the call
    buzon,      \* the IMAP mailbox: message id -> message
    remitentes, \* config["monitored_senders"]
    correos,    \* main: the batch returned by buscar_correos_monitoreados
    i,          \* main: number of batch entries handed to procesar_correo
    pc,         \* position of the single thread of control
    loc,        \* procesar_correo: its local variables
    traza,      \* steps and collaborator calls of the current procesar_correo
    procesados, \* batch positions handed to procesar_correo in this cycle, in order
    errores,    \* batch positions whose processing raised, in this cycle
    elementos   \* create-item calls issued in this cycle, in order

vars == <<llamada, retorno, buzon, remitentes, correos, i, pc, loc, traza,
          procesados, errores, elementos>>

pipeVars == <<buzon, remitentes, correos, i, pc, loc, traza, procesados, errores, elementos>>

None == "<None>"
\* the outcome of a call: pending, returned with a value, or raised
Pendiente == [estado |-> "pendiente"]
Devuelve(v) == [estado |-> "devuelto", valor |-> v]
Lanza == [estado |-> "excepcion"]

(***************************************************************************)
(* Bounds of the model.                                                    *)
(***************************************************************************)
MaxPalabras == 2   \* words in a subject given to the classifier
MaxExceso == 2     \* characters by which a body may exceed LargoMaximo
MaxEstados == 2    \* length of the state list the backend reports
MaxMensajes == 2   \* messages in the mailbox

(***************************************************************************)
(* str helpers: s[k], x in s, s.lower(), s.strip().                        *)
(***************************************************************************)
Car(s, k) == SubSeq(s, k, k)

Contiene(s, sub) ==
    \E k \in 1..(Len(s) - Len(sub) + 1) : SubSeq(s, k, k + Len(sub) - 1) = sub

EnPos(s, k, sub) ==
    /\ k >= 1
    /\ k + Len(sub) - 1 <= Len(s)
    /\ SubSeq(s, k, k + Len(sub) - 1) = sub

Mayusculas == "ABCDEFGHIJKLMNOPQRSTUVWXYZÓ"
Minusculas == "abcdefghijklmnopqrstuvwxyzó"

MapaMinusculas ==
    [c \in {Car(Mayusculas, k) : k \in 1..Len(Mayusculas)} |->
        Car(Minusculas, CHOOSE k \in 1..Len(Mayusculas) : Car(Mayusculas, k) = c)]

LowerCar(c) == IF c \in DOMAIN MapaMinusculas THEN MapaMinusculas[c] ELSE c

RECURSIVE Lower(_)
Lower(s) ==
    IF Len(s) = 0 THEN ""
    ELSE IF Len(s) = 1 THEN LowerCar(s)
    ELSE LET m == Len(s) \div 2
         IN  Lower(SubSeq(s, 1, m)) \o Lower(SubSeq(s, m + 1, Len(s)))

EsEspacio(c) == c \in {" ", "\t", "\n", "\r", "\f"}

RECURSIVE LStrip(_)
LStrip(s) == IF s # "" /\ EsEspacio(Head(s)) THEN LStrip(Tail(s)) ELSE s

RECURSIVE RStrip(_)
RStrip(s) ==
    IF s # "" /\ EsEspacio(Car(s, Len(s))) THEN RStrip(SubSeq(s, 1, Len(s) - 1)) ELSE s

Strip(s) == RStrip(LStrip(s))

(***************************************************************************)
(* Module-level tables.  A Python dict iterates in insertion order, so a   *)
(* dict is a sequence of <<key, value>> pairs.                             *)
(***************************************************************************)
DictGet(d, k, def) ==
    IF \E n \in 1..Len(d) : d[n][1] = k
    THEN d[CHOOSE n \in 1..Len(d) : d[n][1] = k][2]
    ELSE def

MAPEO_TABLERO ==
    << <<"Bugs creados", "To Do">>,
       <<"En revision", "Doing">>,
       <<"Ejecucion existosa", "Done">> >>

MAPEO_REMITENTES ==
    << <<"azuredevops@microsoft.com",
         << <<"failed", "Bugs creados">>,
            <<"succeeded", "Ejecucion existosa">>,
            <<"warning", "En revision">> >> >>,
       <<"os-certificacionoperaciones@osde.com.ar",
         << <<"failed", "Bugs creados">>,
            <<"success", "Ejecucion existosa">>,
            <<"unstable", "En revision">> >> >> >>

PLANTILLAS_DETALLES ==
    << <<"azuredevops@microsoft.com",
         << <<"failed", "[alarma] Pipeline de Azure DevOps fallo">>,
            <<"succeeded", "[ok] Pipeline de Azure DevOps exitoso">>,
            <<"warning", "[aviso] Advertencia en Pipeline de Azure DevOps">> >> >>,
       <<"os-certificacionoperaciones@osde.com.ar",
         << <<"failed", "[alarma] Prueba fallida">>,
            <<"success", "[ok] Prueba exitosa">> >> >> >>

(***************************************************************************)
(* ProcesadorCorreos.determinar_accion_por_remitente                       *)
(***************************************************************************)
\* mutant: the success branch of the chain tested before the failure branch
PatronesGenericos_ExitoPrimero ==
    << << {"succeeded", "success", "exitoso", "completado", "exitosa"},
          "Ejecucion existosa", "success" >>,
       << {"failed", "failure", "error", "falló", "fallo", "fallida"},
          "Bugs creados", "failed" >>,
       << {"warning", "unstable", "advertencia", "inestable"},
          "En revision", "warning" >> >>

\* the if/elif chain of generic patterns: <<keywords, columna, tipo_evento>>
PatronesGenericos ==
    << << {"failed", "failure", "error", "falló", "fallo", "fallida"},
          "Bugs creados", "failed" >>,
       << {"succeeded", "success", "exitoso", "completado", "exitosa"},
          "Ejecucion existosa", "success" >>,
       << {"warning", "unstable", "advertencia", "inestable"},
          "En revision", "warning" >> >>

\* mutant: the sender table is never selected by the sender, only the default
MapeoDeRemitente_SoloDefecto(remitente_limpio) ==
    DictGet(MAPEO_REMITENTES, "azuredevops@microsoft.com", <<>>)

\* for remitente_mapeo in MAPEO_REMITENTES: ... break; then the default
MapeoDeRemitente(remitente_limpio) ==
    LET hits == {n \in 1..Len(MAPEO_REMITENTES) :
                    Contiene(remitente_limpio, Lower(MAPEO_REMITENTES[n][1]))}
        primero == CHOOSE n \in hits : \A m \in hits : n <= m
        mapeo_remitente == IF hits = {} THEN <<>> ELSE MAPEO_REMITENTES[primero][2]
    IN  IF mapeo_remitente = <<>>
        THEN DictGet(MAPEO_REMITENTES, "azuredevops@microsoft.com", <<>>)
        ELSE mapeo_remitente

\* for patron, columna in mapeo_remitente.items(): first hit, in table order
BuscarEnMapeo(mapeo_remitente, asunto_lower) ==
    LET hits == {n \in 1..Len(mapeo_remitente) :
                    Contiene(asunto_lower, mapeo_remitente[n][1])}
        primero == CHOOSE n \in hits : \A m \in hits : n <= m
    IN  IF hits = {} THEN <<None, None>>
        ELSE <<mapeo_remitente[primero][2], mapeo_remitente[primero][1]>>

BuscarGenerico(asunto_lower) ==
    LET hits == {n \in 1..Len(PatronesGenericos) :
                    \E p \in PatronesGenericos[n][1] : Contiene(asunto_lower, p)}
        primero == CHOOSE n \in hits : \A m \in hits : n <= m
    IN  IF hits = {} THEN <<None, None>>
        ELSE <<PatronesGenericos[primero][2], PatronesGenericos[primero][3]>>

determinar_accion_por_remitente(asunto, remitente) ==
    LET asunto_lower == Lower(asunto)
        remitente_limpio == Lower(Strip(remitente))
        especifico == BuscarEnMapeo(MapeoDeRemitente(remitente_limpio), asunto_lower)
    IN  IF especifico # <<None, None>> THEN especifico
        ELSE BuscarGenerico(asunto_lower)

(***************************************************************************)
(* ClienteAzureDevOps.extraer_detalles_correo                              *)
(*                                                                         *)
(* An email.message.Message is a record: multipart, carga (the payload of  *)
(* a non-multipart message) and partes (the leaf parts walk() yields, each *)
(* with tipo, disposicion and carga).  A payload is the text of its bytes; *)
(* the character ByteInvalido stands for a byte that is not valid UTF-8.   *)
(* get_payload(decode=True) returning None is the payload None.            *)
(***************************************************************************)
LargoMaximo == 1000
Excepcion == "<Exception>"
ByteInvalido == "^"
MarcadorError == "Error al extraer contenido del correo"

Min(S) == CHOOSE x \in S : \A y \in S : x <= y

\* bytes.decode(errors='ignore'): the invalid bytes are dropped
RECURSIVE Decode(_)
Decode(b) ==
    IF Len(b) = 0 THEN ""
    ELSE IF Len(b) = 1 THEN (IF b = ByteInvalido THEN "" ELSE b)
    ELSE LET m == Len(b) \div 2
         IN  Decode(SubSeq(b, 1, m)) \o Decode(SubSeq(b, m + 1, Len(b)))

\* str(x) of a header value that may be None
Str(x) == IF x = None THEN "None" ELSE x

\* the body: lines 146-156; Excepcion when .decode is called on None
CuerpoDe(mensaje) ==
    IF mensaje.multipart
    THEN LET ok == {n \in 1..Len(mensaje.partes) :
                       /\ mensaje.partes[n].tipo = "text/plain"
                       /\ ~Contiene(Str(mensaje.partes[n].disposicion), "attachment")}
         IN  IF ok = {} THEN ""
             ELSE IF mensaje.partes[Min(ok)].carga = None THEN Excepcion
             ELSE Decode(mensaje.partes[Min(ok)].carga)
    ELSE IF mensaje.carga = None THEN Excepcion
         ELSE Decode(mensaje.carga)

\* mutant: the slice without the length test, the marker always appended
Truncar_SiempreMarca(cuerpo) == SubSeq(cuerpo, 1, Min({Len(cuerpo), LargoMaximo})) \o "..."

\* cuerpo[:1000] + "..." if len(cuerpo) > 1000 else cuerpo
Truncar(cuerpo) ==
    IF Len(cuerpo) > LargoMaximo THEN SubSeq(cuerpo, 1, LargoMaximo) \o "..." ELSE cuerpo

(***************************************************************************)
(* The regular expressions of patrones, matched as the re module matches   *)
(* them: a pattern is a sequence of elements, either an alternation of     *)
(* literals tried in order or a greedy repetition of a character class;    *)
(* backtracking tries the longest repetition first.  re.IGNORECASE:        *)
(* literals are compared to the lower-cased text.                          *)
(***************************************************************************)
Alt(ops, cap) == [t |-> "alt", ops |-> ops, cap |-> cap]
Rep(clase, min, cap) == [t |-> "rep", clase |-> clase, min |-> min, cap |-> cap]

Digitos == {"0", "1", "2", "3", "4", "5", "6", "7", "8", "9"}

EnClase(clase, c) ==
    CASE clase = "sep"    -> c = ":" \/ EsEspacio(c)              \* [:\s]
      [] clase = "num"    -> c \in Digitos \cup {":", "."}        \* [0-9:\.]
      [] clase = "esp"    -> EsEspacio(c)                         \* \s
      [] clase = "punto"  -> c # "\n"                             \* .
      [] clase = "url"    -> ~EsEspacio(c) /\ c \notin {"<", ">", "\""}  \* [^\s<>"]

\* number of consecutive characters of the class from position pos
Racha(s, pos, clase) ==
    LET fuera == {k \in pos..Len(s) : ~EnClase(clase, Car(s, k))}
    IN  IF fuera = {} THEN Len(s) - pos + 1 ELSE Min(fuera) - pos

Fallo == [fallo |-> TRUE]

RECURSIVE Casar(_, _, _, _, _)
RECURSIVE CasarAlt(_, _, _, _, _, _)
RECURSIVE CasarRep(_, _, _, _, _, _)

\* match elements k.. of pat at position pos of s (sl is s in lower case):
\* [fin, grupos] or Fallo
Casar(pat, k, s, sl, pos) ==
    IF k > Len(pat) THEN [fin |-> pos, grupos |-> <<>>]
    ELSE IF pat[k].t = "alt" THEN CasarAlt(pat, k, s, sl, pos, 1)
    ELSE CasarRep(pat, k, s, sl, pos, Racha(s, pos, pat[k].clase))

CasarAlt(pat, k, s, sl, pos, o) ==
    IF o > Len(pat[k].ops) THEN Fallo
    ELSE LET lit == pat[k].ops[o]
             resto == IF EnPos(sl, pos, lit)
                      THEN Casar(pat, k + 1, s, sl, pos + Len(lit))
                      ELSE Fallo
         IN  IF resto # Fallo
             THEN [fin |-> resto.fin,
                   grupos |-> (IF pat[k].cap
                               THEN <<SubSeq(s, pos, pos + Len(lit) - 1)>>
                               ELSE <<>>) \o resto.grupos]
             ELSE CasarAlt(pat, k, s, sl, pos, o + 1)

CasarRep(pat, k, s, sl, pos, n) ==
    IF n < pat[k].min THEN Fallo
    ELSE LET resto == Casar(pat, k + 1, s, sl, pos + n)
         IN  IF resto # Fallo
             THEN [fin |-> resto.fin,
                   grupos |-> (IF pat[k].cap
                               THEN <<SubSeq(s, pos, pos + n - 1)>>
                               ELSE <<>>) \o resto.grupos]
             ELSE CasarRep(pat, k, s, sl, pos, n - 1)

\* re.findall(patron, s)[0]: the groups of the leftmost match, <<>> when none.
\* todo: the pattern is one group around the whole expression.
PrimeraCoincidencia(pat, todo, s, sl) ==
    LET hits == {pos \in 1..Len(s) : Casar(pat, 1, s, sl, pos) # Fallo}
    IN  IF hits = {} THEN <<>>
        ELSE LET pos == Min(hits)
                 m == Casar(pat, 1, s, sl, pos)
             IN  IF todo THEN <<SubSeq(s, pos, m.fin - 1)>> ELSE m.grupos

RECURSIVE Join(_)
Join(grupos) ==
    IF Len(grupos) = 1 THEN grupos[1] ELSE grupos[1] \o " " \o Join(Tail(grupos))

\* coincidencias[0] if isinstance(coincidencias[0], str) else ' '.join(coincidencias[0])
ValorDe(grupos) ==
    IF Len(grupos) = 1 THEN grupos[1] ELSE Join(grupos)

\* the dict patrones, in insertion order: <<clave, pattern, todo>>
patrones ==
    << <<"tiempo_ejecucion",
         << Alt(<<"time", "duration", "tiempo", "duracion">>, TRUE),
            Rep("sep", 0, FALSE),
            Rep("num", 1, TRUE),
            Rep("esp", 0, FALSE),
            Alt(<<"seconds", "secs", "minutos", "minutes", "ms", "s">>, TRUE) >>,
         FALSE>>,
       <<"error",
         << Alt(<<"error", "exception", "failed", "failure">>, TRUE),
            Rep("sep", 0, FALSE),
            Rep("punto", 1, TRUE) >>,
         FALSE>>,
       <<"resultado",
         << Alt(<<"result", "status", "estado">>, TRUE),
            Rep("sep", 0, FALSE),
            Alt(<<"success", "failed", "passed", "completed", "completado">>, TRUE) >>,
         FALSE>>,
       <<"url_reporte",
         << Alt(<<"https://", "http://", "www.">>, FALSE),
            Rep("url", 1, FALSE) >>,
         TRUE>> >>

\* for clave, patron in patrones.items(): detalles[clave] = ... when it matches
RECURSIVE Coincidencias(_, _, _)
Coincidencias(cuerpo, cuerpo_lower, n) ==
    IF n > Len(patrones) THEN <<>>
    ELSE LET c == PrimeraCoincidencia(patrones[n][2], patrones[n][3], cuerpo, cuerpo_lower)
             resto == Coincidencias(cuerpo, cuerpo_lower, n + 1)
         IN  IF c = <<>> THEN resto ELSE (patrones[n][1] :> ValorDe(c)) @@ resto

\* detalles is a dict: a function from its keys
extraer_detalles_correo(mensaje) ==
    LET cuerpo == CuerpoDe(mensaje)
    IN  IF cuerpo = Excepcion
        THEN [cuerpo_completo |-> MarcadorError]
        ELSE [cuerpo_completo |-> Truncar(cuerpo)] @@ Coincidencias(cuerpo, Lower(cuerpo), 1)

(***************************************************************************)
(* Inputs of the classifier: subjects of up to MaxPalabras words.          *)
(***************************************************************************)
Palabras ==
    {"failed", "FAILED", "succeeded", "warning", "success", "unstable",
     "failure", "Error", "fallo", "falló", "exitoso", "advertencia",
     "digest", "Build #42"}

RECURSIVE AsuntosDe(_)
AsuntosDe(n) ==
    IF n = 0 THEN {""}
    ELSE LET cortos == AsuntosDe(n - 1)
         IN  cortos \cup {IF a = "" THEN w ELSE a \o " " \o w :
                            a \in cortos, w \in Palabras}

Asuntos == AsuntosDe(MaxPalabras)

RemitentesClasificar ==
    {"azuredevops@microsoft.com",
     "os-certificacionoperaciones@osde.com.ar",
     "OS-CertificacionOperaciones@OSDE.com.ar",
     " azuredevops@microsoft.com ",
     "Azure DevOps <azuredevops@microsoft.com>",
     "jenkins@example.org",
     ""}

PipeQuieto ==
    /\ buzon = <<>>
    /\ remitentes = <<>>
    /\ correos = <<>>
    /\ i = 0
    /\ pc = "fuera"
    /\ loc = [id |-> 0]
    /\ traza = <<>>
    /\ procesados = <<>>
    /\ errores = {}
    /\ elementos = <<>>

InitClasificar ==
    /\ \E a \in Asuntos, r \in RemitentesClasificar :
          llamada = [fn |-> "determinar_accion_por_remitente", asunto |-> a, remitente |-> r]
    /\ retorno = Pendiente
    /\ PipeQuieto

Clasificar ==
    /\ llamada.fn = "determinar_accion_por_remitente"
    /\ retorno = Pendiente
    /\ retorno' = Devuelve(determinar_accion_por_remitente(llamada.asunto, llamada.remitente))
    /\ UNCHANGED <<llamada, pipeVars>>

SpecClasificar == InitClasificar /\ [][Clasificar]_vars

(***************************************************************************)
(* Inputs of the extractor: messages whose body is a short text, alone or  *)
(* followed by filler up to a length around LargoMaximo.                   *)
(***************************************************************************)
Cabezas ==
    {"",
     "Error: compile error\nDuration: 12 minutes",
     "all good",
     "Status: passed in time: 3.5s see https://ci.example/r/1 now",
     "build FAILED:\n",
     "Excep^tion^ : boom",
     "tiempo 1:30 minutos",
     "Failure:\n",
     "estado completado failure   x\nexception y",
     "see <www.x.org> or HTTP://A.b/c"}

RECURSIVE Relleno(_)
Relleno(n) ==
    IF n <= 0 THEN ""
    ELSE IF n = 1 THEN "x"
    ELSE Relleno(n \div 2) \o Relleno(n - (n \div 2))

Cargas ==
    Cabezas \cup
    {c \o "\n" \o Relleno(l - Len(c) - 1) :
        c \in Cabezas, l \in (LargoMaximo - 1)..(LargoMaximo + MaxExceso)}

Simple(b) == [multipart |-> FALSE, carga |-> b, partes |-> <<>>]
Parte(tipo, disposicion, b) == [tipo |-> tipo, disposicion |-> disposicion, carga |-> b]
Multiparte(partes) == [multipart |-> TRUE, carga |-> None, partes |-> partes]

ParteHtml == Parte("text/html", None, "<p>Error: html</p>")
ParteAdjunta == Parte("text/plain", "attachment; filename=\"log.txt\"", "failed: adjunto")

Mensajes ==
    {Simple(b) : b \in Cargas \cup {None}}
    \cup {Multiparte(<<ParteHtml, Parte("text/plain", None, b)>>) : b \in Cargas \cup {None}}
    \cup {Multiparte(<<ParteAdjunta, Parte("text/plain", "inline", b)>>) : b \in Cargas}
    \cup {Multiparte(<<ParteHtml, ParteAdjunta>>)}

InitExtraer ==
    /\ \E m \in Mensajes : llamada = [fn |-> "extraer_detalles_correo", mensaje |-> m]
    /\ retorno = Pendiente
    /\ PipeQuieto

Extraer ==
    /\ llamada.fn = "extraer_detalles_correo"
    /\ retorno = Pendiente
    /\ retorno' = Devuelve(extraer_detalles_correo(llamada.mensaje))
    /\ UNCHANGED <<llamada, pipeVars>>

SpecExtraer == InitExtraer /\ [][Extraer]_vars

Extraido == llamada.fn = "extraer_detalles_correo" /\ retorno # Pendiente

\* C9: extraer_detalles_correo returns, for every message, a map with the
\* key 'cuerpo_completo': the body when it has at most 1000 characters, its
\* first 1000 characters followed by '...' when it is longer, and the
\* placeholder alone when the body could not be read.
C9_ExtraccionTotal ==
    Extraido =>
        LET cuerpo == CuerpoDe(llamada.mensaje)
        IN  /\ retorno.estado = "devuelto"
            /\ "cuerpo_completo" \in DOMAIN retorno.valor
            /\ cuerpo = Excepcion =>
                  retorno.valor = [cuerpo_completo |-> "Error al extraer contenido del correo"]
            /\ (cuerpo # Excepcion /\ Len(cuerpo) <= 1000) => retorno.valor["cuerpo_completo"] = cuerpo
            /\ (cuerpo # Excepcion /\ Len(cuerpo) > 1000) =>
                  /\ Len(retorno.valor["cuerpo_completo"]) = 1003
                  /\ SubSeq(retorno.valor["cuerpo_completo"], 1, 1000) = SubSeq(cuerpo, 1, 1000)
                  /\ SubSeq(retorno.valor["cuerpo_completo"], 1001, 1003) = "..."

\* a body of more than 1000 characters has been truncated and marked
C9_Witness ==
    /\ Extraido
    /\ CuerpoDe(llamada.mensaje) # Excepcion
    /\ Len(CuerpoDe(llamada.mensaje)) = 1001
    /\ retorno.estado = "devuelto"
    /\ Len(retorno.valor["cuerpo_completo"]) = 1003

CuerpoEscenario1 == "Error: compile error\nDuration: 12 minutes"

\* C10: for the body 'Error: compile error' / 'Duration: 12 minutes' the error
\* field is 'compile error' and the duration field is '12 minutes', both
\* without the label token.
C10_SinEtiqueta ==
    (Extraido /\ llamada.mensaje = Simple(CuerpoEscenario1)) =>
        /\ retorno.estado = "devuelto"
        /\ "error" \in DOMAIN retorno.valor
        /\ "tiempo_ejecucion" \in DOMAIN retorno.valor
        /\ retorno.valor["error"] = "compile error"
        /\ retorno.valor["tiempo_ejecucion"] = "12 minutes"

(***************************************************************************)
(* ClienteAzureDevOps: the HTTP collaborator answers with a response       *)
(* record: error (requests raised), status, legible (respuesta.json()     *)
(* parses and has the expected shape) and json, the parsed value.          *)
(***************************************************************************)
ErrorHttp == [error |-> TRUE, status |-> 0, legible |-> FALSE, json |-> <<>>]
Respuesta(status, json) == [error |-> FALSE, status |-> status, legible |-> TRUE, json |-> json]
Ilegible(status) == [error |-> FALSE, status |-> status, legible |-> FALSE, json |-> <<>>]

\* lines 107-121: the names when the call succeeds, else the default list
obtener_tipos_elementos(resp) ==
    IF ~resp.error /\ resp.status = 200 /\ resp.legible
    THEN resp.json
    ELSE <<"Issue", "Task">>

\* lines 123-138
obtener_estados_elemento(resp) ==
    IF ~resp.error /\ resp.status = 200 /\ resp.legible
    THEN resp.json
    ELSE <<"To Do", "Doing", "Done">>

EnLista(x, lista) == \E n \in 1..Len(lista) : lista[n] = x

\* mutant: the mapped state is sent without looking at the available states
ResolverEstado_SinValidar(columna_destino, estados_disponibles) ==
    DictGet(MAPEO_TABLERO, columna_destino, "To Do")

\* lines 186-195: the state for the column, validated against the backend
ResolverEstado(columna_destino, estados_disponibles) ==
    LET estado == DictGet(MAPEO_TABLERO, columna_destino, "To Do")
    IN  IF ~EnLista(estado, estados_disponibles)
        THEN (IF estados_disponibles # <<>> THEN estados_disponibles[1] ELSE "To Do")
        ELSE estado

Campo(detalles, clave, antes, despues) ==
    IF clave \in DOMAIN detalles THEN antes \o detalles[clave] \o despues ELSE ""

\* lines 251-268; 'if detalles' is false for None and for the empty dict
\* alike: detalles=None is the empty dict <<>>
descripcion_error(detalles) ==
    "<h3>Error en Ejecucion</h3><p>Se ha detectado un error durante la ejecucion.</p>"
    \o (IF DOMAIN detalles # {}
        THEN "<h4>Detalles del error:</h4><ul>"
             \o Campo(detalles, "error", "<li><strong>Error:</strong> ", "</li>")
             \o Campo(detalles, "tiempo_ejecucion",
                      "<li><strong>Tiempo de ejecucion:</strong> ", "</li>")
             \o "</ul>"
        ELSE "")

\* lines 270-290
descripcion_exitosa(detalles) ==
    "<h3>Ejecucion Exitosa</h3><p>La ejecucion se ha completado sin errores.</p>"
    \o (IF DOMAIN detalles # {}
        THEN "<h4>Metricas de ejecucion:</h4><ul>"
             \o Campo(detalles, "tiempo_ejecucion",
                      "<li><strong>Tiempo de ejecucion:</strong> ", "</li>")
             \o Campo(detalles, "resultado", "<li><strong>Resultado:</strong> ", "</li>")
             \o Campo(detalles, "url_reporte",
                      "<li><strong>Reporte:</strong> <a href='", "'>Ver reporte</a></li>")
             \o "</ul>"
        ELSE "")

\* lines 292-309
descripcion_advertencia(detalles) ==
    "<h3>Ejecucion con Advertencias</h3><p>La ejecucion se completo pero con advertencias que requieren revision.</p>"
    \o (IF DOMAIN detalles # {}
        THEN "<h4>Detalles:</h4><ul>"
             \o Campo(detalles, "error", "<li><strong>Advertencia:</strong> ", "</li>")
             \o Campo(detalles, "tiempo_ejecucion",
                      "<li><strong>Tiempo de ejecucion:</strong> ", "</li>")
             \o "</ul>"
        ELSE "")

\* lines 230-249 (the emoji of the literals are left out)
construir_descripcion(columna_destino, detalles, remitente) ==
    "<h3>Elemento generado automaticamente</h3>"
    \o "<p><strong>Remitente:</strong> " \o remitente \o "</p>"
    \o (CASE columna_destino = "Bugs creados" -> descripcion_error(detalles)
          [] columna_destino = "Ejecucion existosa" -> descripcion_exitosa(detalles)
          [] columna_destino = "En revision" -> descripcion_advertencia(detalles)
          [] OTHER -> "<p>Notificacion de sistema CI/CD</p>")
    \o (IF "cuerpo_completo" \in DOMAIN detalles
        THEN "<h4>Contenido completo:</h4><pre>" \o detalles["cuerpo_completo"] \o "</pre>"
        ELSE "")
    \o "<p><em>Creado automaticamente desde monitoreo de correo</em></p>"

\* lines 200-214: the JSON patch document of the create-item call
DatosDe(titulo, descripcion, estado, remitente) ==
    << [op |-> "add", path |-> "/fields/System.Title", value |-> titulo],
       [op |-> "add", path |-> "/fields/System.Description", value |-> descripcion],
       [op |-> "add", path |-> "/fields/System.State", value |-> estado],
       [op |-> "add", path |-> "/fields/System.Tags", value |-> "Auto-Generado"] >>
    \o (IF remitente # ""
        THEN << [op |-> "add", path |-> "/fields/System.History",
                 value |-> "Generado desde: " \o remitente] >>
        ELSE <<>>)

NoCreado == <<FALSE, None, None, None>>

\* lines 219-221: id_elemento and url_elemento of a readable 200/201 answer
CreadoCon(json, estado) ==
    LET id_elemento == DictGet(json, "id", "N/A")
    IN  <<TRUE, id_elemento, "org/proyecto/_workitems/edit/" \o id_elemento, estado>>

\* mutant: every response that arrives counts as a created item
ResultadoDePost_SinStatus(respuesta, estado) ==
    IF respuesta.error THEN Devuelve(NoCreado)
    ELSE IF ~respuesta.legible THEN Devuelve(NoCreado)
    ELSE Devuelve(CreadoCon(respuesta.json, estado))

\* lines 216-228: what the method returns for the answer of requests.post;
\* an exception of post or of respuesta.json() reaches the except clause
ResultadoDePost(respuesta, estado) ==
    IF respuesta.error THEN Devuelve(NoCreado)
    ELSE IF respuesta.status \in {200, 201}
         THEN IF ~respuesta.legible THEN Devuelve(NoCreado)
              ELSE Devuelve(CreadoCon(respuesta.json, estado))
         ELSE Devuelve(NoCreado)

\* lines 180-228.  respEstados and respPost are the answers of the backend to
\* the state lookup and to the create-item call; post is the document sent.
crear_elemento_trabajo(titulo, tipo_elemento, columna_destino, detalles, remitente, respEstados, respPost) ==
    LET estados_disponibles == obtener_estados_elemento(respEstados)
        estado == ResolverEstado(columna_destino, estados_disponibles)
        descripcion == construir_descripcion(columna_destino, detalles, remitente)
    IN  [post |-> DatosDe(titulo, descripcion, estado, remitente),
         sal |-> ResultadoDePost(respPost, estado)]

(***************************************************************************)
(* Inputs of the submitter.                                                *)
(***************************************************************************)
NombresEstado == {"To Do", "Doing", "Done", "New"}

RECURSIVE ListasDe(_, _)
ListasDe(S, n) ==
    IF n = 0 THEN {<<>>}
    ELSE LET cortas == ListasDe(S, n - 1)
         IN  cortas \cup {Append(l, x) : l \in cortas, x \in S}

RespuestasEstados ==
    {ErrorHttp, Ilegible(500), Ilegible(200)}
    \cup {Respuesta(200, l) : l \in ListasDe(NombresEstado, MaxEstados)}

RespuestasPost ==
    {ErrorHttp,
     Respuesta(200, <<<<"id", "101">>>>),
     Respuesta(201, <<<<"id", "102">>>>),
     Respuesta(201, <<>>),
     Ilegible(200),
     Respuesta(204, <<>>),
     Respuesta(400, <<<<"message", "bad state">>>>),
     Ilegible(500)}

Columnas == {"Bugs creados", "En revision", "Ejecucion existosa", "Otra columna"}

DetallesCrear == << <<>>, [cuerpo_completo |-> "x", error |-> "Error boom"] >>

InitCrear ==
    /\ \E c \in Columnas, re \in RespuestasEstados, rp \in RespuestasPost,
          d \in 1..Len(DetallesCrear),
          r \in {"", "azuredevops@microsoft.com"} :
          llamada = [fn |-> "crear_elemento_trabajo", titulo |-> "t", tipo_elemento |-> "Issue",
                     columna_destino |-> c, detalles |-> DetallesCrear[d], remitente |-> r,
                     respEstados |-> re, respPost |-> rp, post |-> <<>>]
    /\ retorno = Pendiente
    /\ PipeQuieto

Crear ==
    /\ llamada.fn = "crear_elemento_trabajo"
    /\ retorno = Pendiente
    /\ LET r == crear_elemento_trabajo(llamada.titulo, llamada.tipo_elemento,
                                       llamada.columna_destino, llamada.detalles,
                                       llamada.remitente, llamada.respEstados,
                                       llamada.respPost)
       IN  /\ retorno' = r.sal
           /\ llamada' = [llamada EXCEPT !.post = r.post]
    /\ UNCHANGED pipeVars

SpecCrear == InitCrear /\ [][Crear]_vars

Creado == llamada.fn = "crear_elemento_trabajo" /\ retorno # Pendiente

\* the value of /fields/System.State in the document of the create-item call
EstadoEnviado ==
    llamada.post[CHOOSE n \in 1..Len(llamada.post) :
                    llamada.post[n].path = "/fields/System.State"].value

BusquedaOk ==
    /\ ~llamada.respEstados.error
    /\ llamada.respEstados.status = 200
    /\ llamada.respEstados.legible

\* C7: the state sent is the column's mapped state when the backend's list
\* of valid states holds it, else the first entry of a non-empty list, else
\* 'To Do' for an empty list; so it is a member of every non-empty list.
C7_EstadoResuelto ==
    (Creado /\ BusquedaOk) =>
        LET lista == llamada.respEstados.json
            c == llamada.columna_destino
            mapeado == IF c = "Bugs creados" THEN "To Do"
                       ELSE IF c = "En revision" THEN "Doing"
                       ELSE IF c = "Ejecucion existosa" THEN "Done"
                       ELSE "To Do"
            en(x) == \E n \in 1..Len(lista) : lista[n] = x
        IN  /\ en(mapeado) => EstadoEnviado = mapeado
            /\ (~en(mapeado) /\ Len(lista) >= 1) => EstadoEnviado = lista[1]
            /\ Len(lista) = 0 => EstadoEnviado = "To Do"
            /\ Len(lista) >= 1 => en(EstadoEnviado)

\* the mapped state 'Doing' is not in the list <<New, Done>>: 'New' is sent
C7_Witness ==
    /\ Creado
    /\ BusquedaOk
    /\ llamada.columna_destino = "En revision"
    /\ llamada.respEstados.json = <<"New", "Done">>
    /\ EstadoEnviado = "New"

PostOk ==
    /\ ~llamada.respPost.error
    /\ llamada.respPost.status \in {200, 201}

\* C8 as stated: the call never raises; a failed state lookup, a failed
\* create-item transport or a non-success response give (False, None, None,
\* None); success only for a success status.
C8_Original ==
    Creado =>
        /\ retorno.estado = "devuelto"
        /\ (~BusquedaOk \/ ~PostOk) => retorno.valor = <<FALSE, None, None, None>>
        /\ retorno.valor[1] = TRUE =>
              (PostOk /\ retorno.valor[2] # None /\ retorno.valor[4] = EstadoEnviado)

\* C8 amended: the call never raises; a failed create-item transport or a
\* response whose status is not 200/201 gives (False, None, None, None);
\* success only for a success status, with an item id and the state sent; a
\* failed state lookup alone does not fail the call: every readable
\* 200/201 response still gives success.
C8_FalloSuave ==
    Creado =>
        /\ retorno.estado = "devuelto"
        /\ ~PostOk => retorno.valor = <<FALSE, None, None, None>>
        /\ retorno.valor[1] = TRUE =>
              (PostOk /\ retorno.valor[2] # None /\ retorno.valor[4] = EstadoEnviado)
        /\ retorno.valor[1] = FALSE => retorno.valor = <<FALSE, None, None, None>>
        /\ (PostOk /\ llamada.respPost.legible) => retorno.valor[1] = TRUE

\* the state lookup failed and the item was created all the same
C8_Witness ==
    /\ Creado
    /\ llamada.respEstados.error
    /\ llamada.respPost.status = 201
    /\ retorno.estado = "devuelto"
    /\ retorno.valor[1] = TRUE
    /\ retorno.valor[4] = "To Do"

(***************************************************************************)
(* ProcesadorCorreos and main: the polling loop.                           *)
(*                                                                         *)
(* A message of the mailbox is a record: de (its From header), asunto      *)
(* (its Subject header as decode_header sees it), mensaje (see above) and  *)
(* visto (the \Seen flag).  Logger.registrar is taken to succeed.          *)
(***************************************************************************)
AsuntoPlano(t) ==
    [crudo |-> t, partes |-> <<[texto |-> t, bytes |-> FALSE, codificacion |-> None]>>]
AsuntoCodificado(t, cs) ==
    [crudo |-> "=?" \o cs \o "?q?" \o t \o "?=",
     partes |-> <<[texto |-> t, bytes |-> TRUE, codificacion |-> cs]>>]
SinAsunto == [crudo |-> None, partes |-> <<>>]

CodecsConocidos == {"utf-8", "iso-8859-1", "us-ascii"}

RECURSIVE UnirPartes(_)
UnirPartes(partes) ==
    IF partes = <<>> THEN ""
    ELSE (IF partes[1].bytes THEN Decode(partes[1].texto) ELSE partes[1].texto)
         \o UnirPartes(Tail(partes))

\* lines 352-364: decode_header(None) and an unknown charset raise, and the
\* bare except returns str(asunto_codificado)
decodificar_asunto(asunto_codificado) ==
    IF asunto_codificado.crudo = None THEN "None"
    ELSE IF \E n \in 1..Len(asunto_codificado.partes) :
                /\ asunto_codificado.partes[n].bytes
                /\ asunto_codificado.partes[n].codificacion \notin CodecsConocidos \cup {None}
         THEN asunto_codificado.crudo
         ELSE UnirPartes(asunto_codificado.partes)

\* IMAP SEARCH UNSEEN FROM "x": the unseen messages whose From header
\* contains x, ignoring case, in mailbox order
RECURSIVE BuscarImap(_, _, _)
BuscarImap(b, x, n) ==
    IF n > Len(b) THEN <<>>
    ELSE (IF ~b[n].visto /\ Contiene(Lower(b[n].de), Lower(x)) THEN <<n>> ELSE <<>>)
         \o BuscarImap(b, x, n + 1)

RECURSIVE ReunirCorreos(_, _, _, _)
ReunirCorreos(b, rems, res, n) ==
    IF n > Len(rems) THEN <<>>
    ELSE LET remitente_limpio == Strip(rems[n])
             ids == BuscarImap(b, remitente_limpio, 1)
             suyos == IF remitente_limpio # "" /\ res[n] = "OK"
                      THEN [k \in 1..Len(ids) |-> <<ids[k], remitente_limpio>>]
                      ELSE <<>>
         IN  suyos \o ReunirCorreos(b, rems, res, n + 1)

\* lines 330-350.  res[n] is the outcome of the n-th search: "OK", "NO"
\* (another status) or "EXC" (it raised: the method returns [])
buscar_correos_monitoreados(b, rems, res) ==
    IF \E n \in 1..Len(rems) : Strip(rems[n]) # "" /\ res[n] = "EXC"
    THEN <<>>
    ELSE ReunirCorreos(b, rems, res, 1)

\* mutant: the mark-seen call moved behind the logging of the outcome
DespuesDe_MarcaAlFinal(paso) ==
    CASE paso = "fetch" -> "decodificar"
      [] paso = "decodificar" -> "extraer"
      [] paso = "extraer" -> "clasificar"
      [] paso = "clasificar" -> "tipos"
      [] paso = "tipos" -> "crear"
      [] paso = "crear" -> "registrar"
      [] paso = "registrar" -> "store"
      [] paso = "store" -> "bucle"

\* lines 400-456: the statement that follows each step of procesar_correo
\* when the step neither returns nor raises
DespuesDe(paso) ==
    CASE paso = "fetch" -> "decodificar"
      [] paso = "decodificar" -> "extraer"
      [] paso = "extraer" -> "store"
      [] paso = "store" -> "clasificar"
      [] paso = "clasificar" -> "tipos"
      [] paso = "tipos" -> "crear"
      [] paso = "crear" -> "registrar"
      [] paso = "registrar" -> "bucle"

\* mutant: no except clause in procesar_correo: the exception reaches main,
\* which logs it and sleeps, leaving the rest of the batch
TrasExcepcion_Propaga == "esperar"

\* lines 458-459: the exception is logged and procesar_correo returns to the loop
TrasExcepcion == "bucle"

\* mutant: the test of line 419 never takes the early return
SinAccion_Nunca(columna) == FALSE

\* line 419: if not columna
SinAccion(columna) == columna = None \/ columna = ""

\* lines 423-431
TipoElemento(tipos_disponibles) ==
    IF EnLista("Issue", tipos_disponibles) THEN "Issue"
    ELSE IF tipos_disponibles # <<>> THEN tipos_disponibles[1] ELSE "Issue"

\* lines 433-441
TituloPrefijo(remitente, tipo_evento) ==
    LET titulo_prefijo == DictGet(DictGet(PLANTILLAS_DETALLES, remitente, <<>>), tipo_evento, "")
    IN  IF titulo_prefijo # "" THEN titulo_prefijo
        ELSE IF tipo_evento = "failed" THEN "[alarma] Error en ejecucion"
        ELSE IF tipo_evento = "success" THEN "[ok] Ejecucion exitosa"
        ELSE "[aviso] Notificacion"

\* line 443
Titulo(titulo_prefijo, asunto) ==
    titulo_prefijo \o ": " \o SubSeq(asunto, 1, Min({100, Len(asunto)}))
    \o (IF Len(asunto) > 100 THEN "..." ELSE "")

LocInicial(id, remitente) ==
    [id |-> id, remitente |-> remitente, fetch |-> "", asunto |-> "", detalles |-> <<>>,
     columna |-> None, tipo_evento |-> None, tipo_elemento |-> "", titulo |-> "",
     exito |-> FALSE, excepcion |-> FALSE]

(***************************************************************************)
(* The mailboxes and configurations the model starts from.                 *)
(***************************************************************************)
Azure == "azuredevops@microsoft.com"
Osde == "os-certificacionoperaciones@osde.com.ar"

MensajesBuzon ==
    {[de |-> Azure, asunto |-> AsuntoPlano("Build #42 failed"),
      mensaje |-> Simple(CuerpoEscenario1), visto |-> FALSE],
     [de |-> Osde, asunto |-> AsuntoCodificado("Suite unstable - review needed", "utf-8"),
      mensaje |-> Multiparte(<<ParteHtml, Parte("text/plain", None, "Status: passed")>>),
      visto |-> FALSE],
     [de |-> Azure, asunto |-> AsuntoPlano("Daily digest"),
      mensaje |-> Simple("all good"), visto |-> FALSE],
     [de |-> Osde, asunto |-> SinAsunto,
      mensaje |-> Simple(""), visto |-> FALSE],
     [de |-> Osde, asunto |-> AsuntoPlano("Regression succeeded"),
      mensaje |-> Simple("Duration: 3 minutes"), visto |-> FALSE]}

Configuraciones ==
    {<<Azure, "", Osde>>,
     <<Azure, " " \o Azure>>,
     <<"osde.com.ar", "OS-CertificacionOperaciones@osde.com.ar">>}

RespuestasTipos ==
    {ErrorHttp, Respuesta(200, <<"Issue", "Task">>), Respuesta(200, <<"Bug", "Epic">>),
     Respuesta(200, <<>>)}

RespuestasEstadosBucle ==
    {ErrorHttp, Respuesta(200, <<"To Do", "Doing", "Done">>), Respuesta(200, <<"New">>)}

RespuestasPostBucle ==
    {ErrorHttp, Respuesta(201, <<<<"id", "102">>>>), Ilegible(500)}

Init ==
    /\ llamada = [fn |-> "main"]
    /\ retorno = Pendiente
    /\ buzon \in [1..MaxMensajes -> MensajesBuzon]
    /\ remitentes \in Configuraciones
    /\ correos = <<>>
    /\ i = 0
    /\ pc = "conectar"
    /\ loc = LocInicial(0, "")
    /\ traza = <<>>
    /\ procesados = <<>>
    /\ errores = {}
    /\ elementos = <<>>

noPipe == <<llamada, retorno>>

\* lines 458-459, reached from the step that raised
Excepto(t) ==
    /\ traza' = Append(t, "log_error")
    /\ errores' = errores \cup {i}
    /\ loc' = [loc EXCEPT !.excepcion = TRUE]
    /\ pc' = TrasExcepcion

\* lines 480-481 and 499-500: conectar returns a client or None
Conectar ==
    /\ pc = "conectar"
    /\ \E ok \in BOOLEAN : pc' = IF ok THEN "buscar" ELSE "esperar"
    /\ correos' = <<>>
    /\ i' = 0
    /\ procesados' = <<>>
    /\ errores' = {}
    /\ elementos' = <<>>
    /\ traza' = <<>>
    /\ loc' = LocInicial(0, "")
    /\ UNCHANGED <<noPipe, buzon, remitentes>>

\* lines 483-488 and 494-495
Buscar ==
    /\ pc = "buscar"
    /\ \E res \in [1..Len(remitentes) -> {"OK", "NO", "EXC"}] :
          /\ correos' = buscar_correos_monitoreados(buzon, remitentes, res)
          /\ pc' = IF correos' # <<>> THEN "bucle" ELSE "cerrar"
    /\ UNCHANGED <<noPipe, buzon, remitentes, i, loc, traza, procesados, errores, elementos>>

\* lines 490-493: the for loop hands the next entry to procesar_correo
Bucle ==
    /\ pc = "bucle"
    /\ IF i < Len(correos)
       THEN /\ i' = i + 1
            /\ loc' = LocInicial(correos[i + 1][1], correos[i + 1][2])
            /\ traza' = <<>>
            /\ procesados' = Append(procesados, i + 1)
            /\ pc' = "fetch"
       ELSE /\ pc' = "cerrar"
            /\ loc' = LocInicial(0, "")
            /\ traza' = <<>>
            /\ UNCHANGED <<i, procesados>>
    /\ UNCHANGED <<noPipe, buzon, remitentes, correos, errores, elementos>>

\* lines 400-402.  OK_VACIO: the server answers OK with no data for the id
Fetch ==
    /\ pc = "fetch"
    /\ \E r \in {"OK", "OK_VACIO", "NO", "EXC"} :
          /\ loc' = [loc EXCEPT !.fetch = r, !.excepcion = (r = "EXC")]
          /\ IF r = "EXC"
             THEN /\ traza' = <<"fetch", "log_error">>
                  /\ errores' = errores \cup {i}
                  /\ pc' = TrasExcepcion
             ELSE /\ traza' = <<"fetch">>
                  /\ errores' = errores
                  /\ pc' = IF r = "NO" THEN "bucle" ELSE DespuesDe("fetch")
    /\ UNCHANGED <<noPipe, buzon, remitentes, correos, i, procesados, elementos>>

\* lines 404-407: datos[0][1] raises when the answer holds no data
Decodificar ==
    /\ pc = "decodificar"
    /\ IF loc.fetch = "OK_VACIO"
       THEN Excepto(traza)
       ELSE /\ loc' = [loc EXCEPT !.asunto = decodificar_asunto(buzon[loc.id].asunto)]
            /\ traza' = traza \o <<"decodificar", "log_procesando">>
            /\ pc' = DespuesDe("decodificar")
            /\ UNCHANGED errores
    /\ UNCHANGED <<noPipe, buzon, remitentes, correos, i, procesados, elementos>>

\* lines 410-411
ExtraerDetalles ==
    /\ pc = "extraer"
    /\ loc' = [loc EXCEPT !.detalles = ("remitente" :> loc.remitente)
                                        @@ extraer_detalles_correo(buzon[loc.id].mensaje)]
    /\ traza' = Append(traza, "extraer")
    /\ pc' = DespuesDe("extraer")
    /\ UNCHANGED <<noPipe, buzon, remitentes, correos, i, procesados, errores, elementos>>

\* line 414: the store call sets the flag, answers another status, or raises
MarcarLeido ==
    /\ pc = "store"
    /\ \E r \in {"OK", "NO", "EXC"} :
          /\ buzon' = IF r = "OK" THEN [buzon EXCEPT ![loc.id].visto = TRUE] ELSE buzon
          /\ IF r = "EXC"
             THEN Excepto(Append(traza, "store"))
             ELSE /\ traza' = Append(traza, "store")
                  /\ pc' = DespuesDe("store")
                  /\ UNCHANGED <<loc, errores>>
    /\ UNCHANGED <<noPipe, remitentes, correos, i, procesados, elementos>>

\* lines 417-421
DeterminarAccion ==
    /\ pc = "clasificar"
    /\ LET r == determinar_accion_por_remitente(loc.asunto, loc.remitente)
       IN  /\ loc' = [loc EXCEPT !.columna = r[1], !.tipo_evento = r[2]]
           /\ IF SinAccion(r[1])
              THEN /\ traza' = traza \o <<"clasificar", "log_noaccion">>
                   /\ pc' = "bucle"
              ELSE /\ traza' = Append(traza, "clasificar")
                   /\ pc' = DespuesDe("clasificar")
    /\ UNCHANGED <<noPipe, buzon, remitentes, correos, i, procesados, errores, elementos>>

\* lines 424-431
DeterminarTipo ==
    /\ pc = "tipos"
    /\ \E resp \in RespuestasTipos :
          loc' = [loc EXCEPT !.tipo_elemento = TipoElemento(obtener_tipos_elementos(resp))]
    /\ traza' = Append(traza, "tipos")
    /\ pc' = DespuesDe("tipos")
    /\ UNCHANGED <<noPipe, buzon, remitentes, correos, i, procesados, errores, elementos>>

\* lines 433-448: the title, then crear_elemento_trabajo with its two calls
CrearElemento ==
    /\ pc = "crear"
    /\ \E re \in RespuestasEstadosBucle, rp \in RespuestasPostBucle :
          LET titulo == Titulo(TituloPrefijo(loc.remitente, loc.tipo_evento), loc.asunto)
              r == crear_elemento_trabajo(titulo, loc.tipo_elemento, loc.columna,
                                          loc.detalles, loc.remitente, re, rp)
          IN  /\ loc' = [loc EXCEPT !.titulo = titulo, !.exito = r.sal.valor[1]]
              /\ elementos' = Append(elementos,
                                     [pos |-> i, id |-> loc.id, remitente |-> loc.remitente,
                                      columna |-> loc.columna, titulo |-> titulo])
    /\ traza' = traza \o <<"estados", "render", "post">>
    /\ pc' = DespuesDe("crear")
    /\ UNCHANGED <<noPipe, buzon, remitentes, correos, i, procesados, errores>>

\* lines 450-456
RegistrarResultado ==
    /\ pc = "registrar"
    /\ traza' = Append(traza, IF loc.exito THEN "log_ok" ELSE "log_fallo")
    /\ pc' = DespuesDe("registrar")
    /\ UNCHANGED <<noPipe, buzon, remitentes, correos, i, loc, procesados, errores, elementos>>

\* lines 497-498: close and logout; when one raises, main logs it and sleeps
Cerrar ==
    /\ pc = "cerrar"
    /\ pc' = "esperar"
    /\ UNCHANGED <<noPipe, buzon, remitentes, correos, i, loc, traza, procesados, errores, elementos>>

\* lines 502-504 and 477: sleep, then the next cycle
Esperar ==
    /\ pc = "esperar"
    /\ pc' = "conectar"
    /\ UNCHANGED <<noPipe, buzon, remitentes, correos, i, loc, traza, procesados, errores, elementos>>

\* the process is killed
Terminar ==
    /\ pc \notin {"terminado", "fuera"}
    /\ pc' = "terminado"
    /\ UNCHANGED <<noPipe, buzon, remitentes, correos, i, loc, traza, procesados, errores, elementos>>

Next ==
    \/ Conectar
    \/ Buscar
    \/ Bucle
    \/ Fetch
    \/ Decodificar
    \/ ExtraerDetalles
    \/ MarcarLeido
    \/ DeterminarAccion
    \/ DeterminarTipo
    \/ CrearElemento
    \/ RegistrarResultado
    \/ Cerrar
    \/ Esperar
    \/ Terminar

Spec == Init /\ [][Next]_vars

(***************************************************************************)
(* Claims about procesar_correo and the loop of main.                      *)
(***************************************************************************)
EnTraza(paso) == \E n \in 1..Len(traza) : traza[n] = paso
PosEnTraza(paso) == CHOOSE n \in 1..Len(traza) : traza[n] = paso

\* procesar_correo has returned for batch position i; traza is its trace
Retornado == pc = "bucle" /\ i >= 1 /\ traza # <<>>

\* C1: when procesar_correo returns, the mark-seen call has been issued for
\* every message whose fetch answered OK, whatever the later steps did, and
\* for no message whose fetch did not answer OK.
C1_MarcaSiempre ==
    Retornado =>
        /\ loc.fetch \in {"OK", "OK_VACIO"} => EnTraza("store")
        /\ loc.fetch \notin {"OK", "OK_VACIO"} => ~EnTraza("store")

EsPrefijo(a, b) == Len(a) <= Len(b) /\ SubSeq(b, 1, Len(a)) = a

SinLogError(t) ==
    IF t # <<>> /\ t[Len(t)] = "log_error" THEN SubSeq(t, 1, Len(t) - 1) ELSE t

CategoriaDelActual == determinar_accion_por_remitente(loc.asunto, loc.remitente)[1]

C3_SinAccionSinElemento ==
    (pc # "fuera" /\ EnTraza("clasificar") /\ loc.columna = None /\ loc.tipo_evento = None) =>
        /\ EnTraza("store")
        /\ PosEnTraza("store") < PosEnTraza("clasificar")
        /\ ~EnTraza("tipos") /\ ~EnTraza("estados") /\ ~EnTraza("render") /\ ~EnTraza("post")
        /\ \A n \in 1..Len(elementos) : elementos[n].pos # i
        /\ pc \in {"bucle", "terminado"}

\* 'Daily digest' was classified (None, None), is marked seen, and
\* procesar_correo has returned
C3_Witness ==
    /\ Retornado
    /\ loc.asunto = "Daily digest"
    /\ loc.columna = None
    /\ EnTraza("log_noaccion")
    /\ buzon[loc.id].visto
    /\ elementos = <<>>

\* C4: an exception while one message is processed is caught and logged in
\* procesar_correo, and every entry of the batch is handed to
\* procesar_correo, once and in batch order, before the cycle ends.
C4_LoteContinua ==
    pc # "fuera" =>
        /\ procesados = [k \in 1..i |-> k]
        /\ i <= Len(correos)
        /\ pc \in {"cerrar", "esperar"} => i = Len(correos)
        /\ (loc.excepcion /\ pc # "terminado") =>
              (pc = "bucle" /\ traza[Len(traza)] = "log_error" /\ i \in errores)
        /\ \A k \in errores : k \in 1..i

\* the first entry raised and the second one went on to create an item
C4_Witness ==
    /\ pc = "cerrar"
    /\ 1 \in errores
    /\ Len(correos) >= 2
    /\ \E n \in 1..Len(elementos) : elementos[n].pos = 2

\* C11: the title of every created work item carries the prefix of its
\* category, whatever the configured sender: a failure prefix for
\* 'Bugs creados', a success prefix for 'Ejecucion existosa', a warning or
\* notification prefix for 'En revision'.
C11_PrefijoDeCategoria ==
    \A n \in 1..Len(elementos) :
        LET e == elementos[n]
        IN  /\ e.columna = "Bugs creados" => EsPrefijo("[alarma] ", e.titulo)
            /\ e.columna = "Ejecucion existosa" => EsPrefijo("[ok] ", e.titulo)
            /\ e.columna = "En revision" => EsPrefijo("[aviso] ", e.titulo)

\* C12: within one polling cycle no message id is handed to procesar_correo
\* twice, and no message gets more than one create-item call, also when the
\* searches of several configured senders match it.
C12_UnaVezPorMensaje ==
    pc # "fuera" =>
        /\ \A m, n \in 1..i : correos[m][1] = correos[n][1] => m = n
        /\ \A m, n \in 1..Len(elementos) : elementos[m].id = elementos[n].id => m = n

(***************************************************************************)
(* Claims about the classifier, stated on the normalised (lower-case)      *)
(* subject and sender, without the operators of the model.                 *)
(***************************************************************************)
ClaveTabla == {"failed", "succeeded", "warning", "success", "unstable"}
FallaGenerica == {"failure", "error", "falló", "fallo", "fallida"}
ExitoGenerico == {"succeeded", "success", "exitoso", "completado", "exitosa"}
AvisoGenerico == {"warning", "unstable", "advertencia", "inestable"}

Tiene(a, S) == \E w \in S : Contiene(a, w)

Clasificado == llamada.fn = "determinar_accion_por_remitente" /\ retorno.estado = "devuelto"

\* C5: a subject with no keyword of any sender table and a generic failure
\* word is classified 'Bugs creados' for every sender; without a table
\* keyword the generic groups decide in the order failure, success, warning;
\* (None, None) is returned only when no generic group matches.
C5_FallbackGenerico ==
    Clasificado =>
        LET a == Lower(llamada.asunto)
            sinTabla == ~Tiene(a, ClaveTabla)
        IN  /\ (sinTabla /\ Tiene(a, FallaGenerica)) => retorno.valor = <<"Bugs creados", "failed">>
            /\ sinTabla =>
                  retorno.valor = IF Tiene(a, FallaGenerica) THEN <<"Bugs creados", "failed">>
                            ELSE IF Tiene(a, ExitoGenerico) THEN <<"Ejecucion existosa", "success">>
                            ELSE IF Tiene(a, AvisoGenerico) THEN <<"En revision", "warning">>
                            ELSE <<None, None>>
            /\ retorno.valor = <<None, None>> =>
                  ~Tiene(a, FallaGenerica \cup ExitoGenerico \cup AvisoGenerico \cup {"failed"})

\* a subject with a generic failure word and a generic success word, no table keyword
C5_Witness ==
    /\ Clasificado
    /\ ~Tiene(Lower(llamada.asunto), ClaveTabla)
    /\ Contiene(Lower(llamada.asunto), "error")
    /\ Contiene(Lower(llamada.asunto), "exitoso")
    /\ llamada.remitente = "jenkins@example.org"
    /\ retorno.valor = <<"Bugs creados", "failed">>

\* C6: when the sender contains a key of MAPEO_REMITENTES (ignoring case) and
\* the subject contains a keyword of the sub-table of the first such key, the
\* result is the category and keyword of the first such keyword in table
\* order; a subject containing 'failed' always yields 'Bugs creados'; sender
\* os-certificacionoperaciones@osde.com.ar with 'unstable' and neither
\* 'failed' nor 'success' yields 'En revision' with the table keyword 'unstable'.
C6_TablaDelRemitente ==
    Clasificado =>
        LET a == Lower(llamada.asunto)
            r == Lower(llamada.remitente)
            T == MAPEO_REMITENTES
        IN  /\ \A n \in 1..Len(T) :
                  (Contiene(r, T[n][1]) /\ \A m \in 1..(n - 1) : ~Contiene(r, T[m][1])) =>
                    \A j \in 1..Len(T[n][2]) :
                      (/\ Contiene(a, T[n][2][j][1])
                       /\ \A l \in 1..(j - 1) : ~Contiene(a, T[n][2][l][1]))
                      => retorno.valor = <<T[n][2][j][2], T[n][2][j][1]>>
            /\ Contiene(a, "failed") => retorno.valor = <<"Bugs creados", "failed">>
            /\ (/\ llamada.remitente = "os-certificacionoperaciones@osde.com.ar"
                /\ Contiene(a, "unstable")
                /\ ~Contiene(a, "failed")
                /\ ~Contiene(a, "success"))
               => retorno.valor = <<"En revision", "unstable">>

\* the second sender, written in another case, with 'unstable' and a generic failure word
C6_Witness ==
    /\ Clasificado
    /\ llamada.remitente = "OS-CertificacionOperaciones@OSDE.com.ar"
    /\ Contiene(Lower(llamada.asunto), "unstable")
    /\ Contiene(Lower(llamada.asunto), "error")
    /\ retorno.valor = <<"En revision", "unstable">>

====
